---- MODULE Spec2Model ----
(***************************************************************************)
(* Merkle claim generator of lilypad-leap-claims (scripts/gen-merkle.mjs). *)
(*                                                                         *)
(* Three entry points are modelled over one set of variables:              *)
(*   entry = "main"    the run of gen-merkle.mjs: readCsv, sort,           *)
(*                     leafPacked, buildTree, the claim-file loop, the     *)
(*                     epoch files;                                        *)
(*   entry = "generate-claims"                                             *)
(*                     the run of generate-claims.mjs, whose tree is the   *)
(*                     library's StandardMerkleTree;                       *)
(*   entry = "harness" buildTree and getProof called as pure functions on  *)
(*                     an arbitrary leaf sequence and an arbitrary query.  *)
(*                                                                         *)
(* A 32-byte value is a hex string [bytes, upper]: `bytes' is the value,   *)
(* `upper' says that the string spells its hex letters in upper case.      *)
(* keccak256 is collision-free and acyclic: the digest of an input is      *)
(* denoted by the input itself, so                                         *)
(*   <<n>>                 a 32-byte value that is not a modelled digest,  *)
(*   <<x, y>>              keccak256 of the 64 bytes x ++ y,               *)
(*   <<addr, amt, loss>>   keccak256 of the 84 packed bytes of a record.   *)
(*                                                                         *)
(* The run starts after the environment variables and the input path were  *)
(* read; the file system is taken not to fail.                             *)
(***************************************************************************)
EXTENDS Integers, Sequences, FiniteSets, TLC

VARIABLES
    entry,          \* "main" or "harness"
    pc,             \* position in the program
    err,            \* message of the Error thrown, "" when none
    csv,            \* lines of the input file, each a sequence of trimmed cells
    rows,           \* const rows                         (main)
    leaves,         \* const leaves / buildTree's argument
    level,          \* buildTree: let level
    next,           \* buildTree: const next
    i,              \* buildTree: for-loop index
    layers,         \* buildTree: const layers / main's layers
    root,           \* buildTree's returned root
    mi,             \* main: index of the claim loop
    totalAmount,    \* main: let totalAmount
    totalLoss,      \* main: let totalLoss
    dirs,           \* directories made by ensureDir
    files,          \* file system: path -> object written by writeJson
    writes,         \* the writeJson calls made, in order: [file, obj]
    query,          \* harness: the leaf passed to getProof
    proof,          \* harness: the proof getProof returned
    lastCall,       \* the most recent hashPair call <<a, b, result>>
    hashPairCalls,  \* number of hashPair calls made by buildTree
    buildCalls,     \* number of times buildTree was entered
    entries         \* generate-claims.mjs: const entries

vars == <<entry, pc, err, csv, rows, leaves, level, next, i, layers, root, mi,
          totalAmount, totalLoss, dirs, files, writes, query, proof,
          lastCall, hashPairCalls, buildCalls, entries>>

---------------------------------------------------------------------------
(* Bounds of the model. *)

MaxLeaves == 5      \* longest leaf sequence given to the harness
MaxRows == 2        \* most data lines in the input file

---------------------------------------------------------------------------
(* Strings of the input file. *)

\* 2^256, the smallest decimal string that does not fit a uint256.
TooWide == "115792089237316195423570985008687907853269984665640564039457584007913129639936"

\* String.prototype.toLowerCase on the address cells of the model.
addrToLowerCase(s) ==
    CASE s = "0xAA" -> "0xaa"
      [] s = "0xBB" -> "0xbb"
      [] s = "0xCC" -> "0xcc"
      [] OTHER -> s

\* viem isAddress on a lower-cased string: 0x and 40 hex digits.
isAddress(s) == s \in {"0xaa", "0xbb", "0xcc"}

\* /^\d+$/.test(s)
isDigits(s) == s \in {"0", "1", "01", "2", TooWide}

\* BigInt(s) for the decimal strings of the model that fit the model's integers.
BigInt(s) ==
    CASE s = "0" -> 0
      [] s = "1" -> 1
      [] s = "01" -> 1
      [] s = "2" -> 2

\* viem encodePacked of a uint256 throws IntegerOutOfRangeError above 2^256-1.
fitsUint256(s) == s # TooWide

\* Position of a lower-case address in String.prototype.localeCompare order.
addrOrd(s) ==
    CASE s = "0xaa" -> 1
      [] s = "0xbb" -> 2
      [] s = "0xcc" -> 3

---------------------------------------------------------------------------
(* 32-byte values, keccak256 and the order of their bytes. *)

Hex(b, u) == [bytes |-> b, upper |-> u]

NoHex == Hex(<<>>, FALSE)       \* undefined

\* The bytes of a digest are unrelated to the bytes of its input: a digest is
\* placed in the byte order by a mix of its input, not by the input's size.
RECURSIVE Rank(_)
Rank(t) ==
    IF Len(t) = 1 THEN (t[1] * 37 + 11) % 101
    ELSE IF Len(t) = 2 THEN (Rank(t[1]) * 31 + Rank(t[2]) * 17 + 7) % 101
    ELSE (addrOrd(t[1]) * 29 + t[2] * 13 + t[3] * 5 + 3) % 101

\* Byte-lexicographic order of two 32-byte values: a strict total order.
RECURSIVE BytesLess(_, _)
BytesLess(x, y) ==
    IF Rank(x) # Rank(y) THEN Rank(x) < Rank(y)
    ELSE IF Len(x) # Len(y) THEN Len(x) < Len(y)
    ELSE IF Len(x) = 1 THEN x[1] < y[1]
    ELSE IF Len(x) = 2
         THEN IF x[1] # y[1] THEN BytesLess(x[1], y[1])
                             ELSE BytesLess(x[2], y[2])
    ELSE IF x[1] # y[1] THEN addrOrd(x[1]) < addrOrd(y[1])
    ELSE IF x[2] # y[2] THEN x[2] < y[2]
    ELSE x[3] < y[3]

\* String.prototype.toLowerCase on a hex string.
toLowerCase(h) == [h EXCEPT !.upper = FALSE]

\* A < B on two lower-case hex strings of 32 bytes: the order of the bytes.
StrLess(A, B) == BytesLess(A.bytes, B.bytes)

\* encodePacked(["bytes32","bytes32"], pair): the 64 bytes, letter case gone.
encodePackedPair(pair) == <<pair[1].bytes, pair[2].bytes>>

\* keccak256 returns the digest as a lower-case hex string.
keccak256(b) == Hex(b, FALSE)

\* Variant of hashPair: the pair is hashed in the order given.
hashPairUnsorted(a, b) == keccak256(encodePackedPair(<<a, b>>))

\* hashPair: the pair is put in the order of the lower-cased strings, then
\* packed and hashed.
hashPair(a, b) ==
    LET A == toLowerCase(a)
        B == toLowerCase(b)
    IN  keccak256(encodePackedPair(IF StrLess(A, B) THEN <<a, b>> ELSE <<b, a>>))

\* leafPacked: keccak256 of the packed (address, uint256, uint256); 20 bytes
\* of address and the two numbers, so "1" and "01" give the same leaf.
leafPacked(address, amount, generatedLoss) ==
    keccak256(<<address, BigInt(amount), BigInt(generatedLoss)>>)

---------------------------------------------------------------------------
(* buildTree and getProof. *)

\* Variant of IndexOf: the last equal element (lastIndexOf).
IndexOfLast(s, x) ==
    IF \E j \in 1..Len(s) : s[j] = x
    THEN (CHOOSE j \in 1..Len(s) : s[j] = x /\ \A m \in (j+1)..Len(s) : s[m] # x) - 1
    ELSE -1

\* Array.prototype.indexOf: 0-based index of the first strictly equal
\* element, -1 when there is none.
IndexOf(s, x) ==
    IF \E j \in 1..Len(s) : s[j] = x
    THEN (CHOOSE j \in 1..Len(s) : s[j] = x /\ \A m \in 1..(j-1) : s[m] # x) - 1
    ELSE -1

\* Variant of PairRight: an unpaired last element is paired with level[0].
PairRightFirst(lvl, idx) ==
    IF idx + 1 < Len(lvl) THEN lvl[idx + 2] ELSE lvl[1]

\* buildTree: const right = i + 1 < level.length ? level[i + 1] : level[i]
PairRight(lvl, idx) ==
    IF idx + 1 < Len(lvl) THEN lvl[idx + 2] ELSE lvl[idx + 1]

\* Variant of Sibling: the pair index is idx + 1 for right nodes too.
SiblingAlwaysRight(layer, idx) ==
    LET pairIndex == idx + 1
    IN  IF pairIndex < Len(layer) THEN layer[pairIndex + 1] ELSE layer[idx + 1]

\* getProof: the sibling of position idx in a layer, the element itself when
\* the pair index is past the end of the layer.
Sibling(layer, idx) ==
    LET isRightNode == idx % 2 = 1
        pairIndex == IF isRightNode THEN idx - 1 ELSE idx + 1
    IN  IF pairIndex < Len(layer) THEN layer[pairIndex + 1] ELSE layer[idx + 1]

\* Variant of ProofLevels: the loop runs over the root layer as well.
ProofLevelsAll(ls) == Len(ls)

\* getProof: the bound of `for (level = 0; level < layers.length - 1; level++)'
ProofLevels(ls) == Len(ls) - 1

RECURSIVE getProofLoop(_, _, _, _)
getProofLoop(ls, lvl, idx, acc) ==
    IF lvl < ProofLevels(ls)
    THEN getProofLoop(ls, lvl + 1, idx \div 2, Append(acc, Sibling(ls[lvl + 1], idx)))
    ELSE acc

\* Variant of leafIndex: the search stops one element early.
leafIndexButLast(leaf, ls) == IndexOf(SubSeq(ls[1], 1, Len(ls[1]) - 1), leaf)

\* getProof: let idx = layers[0].indexOf(leaf)
leafIndex(leaf, ls) == IndexOf(ls[1], leaf)

\* Variant of getProofThrows: position 0 is taken for "not found".
getProofThrowsAtZero(leaf, ls) == leafIndex(leaf, ls) <= 0

\* getProof: if (idx === -1) throw new Error("Leaf not found in layer 0")
getProofThrows(leaf, ls) == leafIndex(leaf, ls) = -1

\* getProof, when it does not throw.
getProof(leaf, ls) == getProofLoop(ls, 0, leafIndex(leaf, ls), <<>>)

---------------------------------------------------------------------------
(* Inputs. *)

RECURSIVE SeqsUpTo(_, _)
SeqsUpTo(S, n) ==
    IF n = 0 THEN {<<>>}
    ELSE LET shorter == SeqsUpTo(S, n - 1)
         IN  shorter \cup {Append(s, x) : s \in {t \in shorter : Len(t) = n - 1}, x \in S}

\* 32-byte values that are not digests of the model.
Atoms == {<<0>>, <<1>>, <<2>>}

\* Leaves given to the harness: 32-byte values in lower case, one of them in
\* upper case as well, and a value that is itself the digest of a pair.
LeafValues ==
    {Hex(t, FALSE) : t \in Atoms}
        \cup {Hex(<<1>>, TRUE)}
        \cup {hashPair(Hex(<<0>>, FALSE), Hex(<<1>>, FALSE))}

Header == <<"address", "amount", "generatedLoss">>

\* A header without the generatedLoss column.
ShortHeader == <<"address", "amount">>

DataLines ==
    { <<"0xaa", "1", "0">>, <<"0xaa", "2", "0">>, <<"0xBB", "1", "0">>,
      <<"0xbb", "1">>, <<"0xcc", "01", "">>, <<"0xaa">>,
      <<"zz", "1", "0">>, <<"0xzz", "1", "0">>, <<"0xaa", "x", "0">>, <<"0xaa", "1", "-1">>,
      <<"0xaa", TooWide, "0">>, <<"0xbb", "1", TooWide>> }

\* Lines every check of readCsv accepts; two addresses come with two amounts.
ValidLines ==
    { <<"0xaa", "1", "0">>, <<"0xaa", "2", "0">>, <<"0xBB", "1", "0">>,
      <<"0xbb", "2", "0">>, <<"0xcc", "01", "">> }

\* The empty file, files under the full header, files of at most one data
\* line under the short header, and files of one more line, all of them valid.
CsvFiles ==
    {<<>>}
        \cup {<<Header>> \o d : d \in SeqsUpTo(DataLines, MaxRows)}
        \cup {<<ShortHeader>> \o d : d \in SeqsUpTo(DataLines, 1)}
        \cup {<<Header>> \o d : d \in [1..(MaxRows + 1) -> ValidLines]}

---------------------------------------------------------------------------
(* Initial states. *)

InitCommon ==
    /\ err = ""
    /\ rows = <<>>
    /\ level = <<>>
    /\ next = <<>>
    /\ i = 0
    /\ layers = <<>>
    /\ root = NoHex
    /\ mi = 0
    /\ totalAmount = 0
    /\ totalLoss = 0
    /\ dirs = {}
    /\ files = <<>>
    /\ writes = <<>>
    /\ query = NoHex
    /\ proof = <<>>
    /\ lastCall = <<>>
    /\ hashPairCalls = 0
    /\ buildCalls = 0
    /\ entries = <<>>

InitHarness ==
    /\ entry = "harness"
    /\ pc = "buildTree"
    /\ csv = <<>>
    /\ leaves \in SeqsUpTo(LeafValues, MaxLeaves)
    /\ InitCommon

InitMain ==
    /\ entry = "main"
    /\ pc = "readCsv"
    /\ csv \in CsvFiles
    /\ leaves = <<>>
    /\ InitCommon

InitGenerateClaims ==
    /\ entry = "generate-claims"
    /\ pc = "collect"
    /\ csv \in CsvFiles
    /\ leaves = <<>>
    /\ InitCommon

Init == InitHarness \/ InitMain \/ InitGenerateClaims

---------------------------------------------------------------------------
(* buildTree, one action per step of its loops. *)

Throw(msg) ==
    /\ pc' = "error"
    /\ err' = msg

BuildEnter ==
    /\ pc = "buildTree"
    /\ buildCalls' = buildCalls + 1
    /\ IF Len(leaves) = 0
       THEN /\ Throw("No leaves")
            /\ UNCHANGED <<level, layers>>
       ELSE /\ level' = leaves
            /\ layers' = <<leaves>>
            /\ pc' = "while"
            /\ err' = err
    /\ UNCHANGED <<entry, csv, rows, leaves, next, i, root, mi, totalAmount,
                   totalLoss, dirs, files, writes, query, proof, lastCall,
                   hashPairCalls, entries>>

BuildWhile ==
    /\ pc = "while"
    /\ IF Len(level) > 1
       THEN /\ next' = <<>>
            /\ i' = 0
            /\ pc' = "for"
       ELSE /\ pc' = "return"
            /\ UNCHANGED <<next, i>>
    /\ UNCHANGED <<entry, err, csv, rows, leaves, level, layers, root, mi,
                   totalAmount, totalLoss, dirs, files, writes, query, proof,
                   lastCall, hashPairCalls, buildCalls, entries>>

BuildPair ==
    /\ pc = "for"
    /\ i < Len(level)
    /\ LET left == level[i + 1]
           right == PairRight(level, i)
       IN  /\ next' = Append(next, hashPair(left, right))
           /\ lastCall' = <<left, right, hashPair(left, right)>>
    /\ hashPairCalls' = hashPairCalls + 1
    /\ i' = i + 2
    /\ UNCHANGED <<entry, pc, err, csv, rows, leaves, level, layers, root, mi,
                   totalAmount, totalLoss, dirs, files, writes, query, proof,
                   buildCalls, entries>>

BuildLayer ==
    /\ pc = "for"
    /\ ~(i < Len(level))
    /\ level' = next
    /\ layers' = Append(layers, next)
    /\ pc' = "while"
    /\ UNCHANGED <<entry, err, csv, rows, leaves, next, i, root, mi,
                   totalAmount, totalLoss, dirs, files, writes, query, proof,
                   lastCall, hashPairCalls, buildCalls, entries>>

BuildReturn ==
    /\ pc = "return"
    /\ root' = layers[Len(layers)][1]
    /\ pc' = IF entry = "main" THEN "ensureDir" ELSE "built"
    /\ UNCHANGED <<entry, err, csv, rows, leaves, level, next, i, layers, mi,
                   totalAmount, totalLoss, dirs, files, writes, query, proof,
                   lastCall, hashPairCalls, buildCalls, entries>>

---------------------------------------------------------------------------
(* The harness's call of getProof. *)

\* Leaves queried: the values leaves are drawn from and every node of the tree.
QueryValues == LeafValues \cup UNION {{layers[l][j] : j \in 1..Len(layers[l])} : l \in 1..Len(layers)}

GetProofCall ==
    /\ pc = "built"
    /\ \E leaf \in QueryValues :
         /\ query' = leaf
         /\ IF getProofThrows(leaf, layers)
            THEN /\ Throw("Leaf not found in layer 0")
                 /\ proof' = proof
            ELSE /\ proof' = getProof(leaf, layers)
                 /\ pc' = "proved"
                 /\ err' = err
    /\ UNCHANGED <<entry, csv, rows, leaves, level, next, i, layers, root, mi,
                   totalAmount, totalLoss, dirs, files, writes, lastCall,
                   hashPairCalls, buildCalls, entries>>

---------------------------------------------------------------------------
(* The script run of gen-merkle.mjs. *)

\* cols[idx] || dflt: a missing or empty cell takes the default.
CellOr(cols, idx, dflt) ==
    IF idx < Len(cols) /\ cols[idx + 1] # "" THEN cols[idx + 1] ELSE dflt

\* readCsv: the row object of one data line.
parseLine(cols, idxAddr, idxAmt, idxLoss) ==
    [address |-> addrToLowerCase(CellOr(cols, idxAddr, "")),
     amount |-> CellOr(cols, idxAmt, "0"),
     generatedLoss |-> CellOr(cols, idxLoss, "0")]

\* readCsv: the three checks made on a row, "" when it passes them.
lineError(r) ==
    IF ~isAddress(r.address) THEN "Bad address"
    ELSE IF ~isDigits(r.amount) THEN "Bad amount"
    ELSE IF ~isDigits(r.generatedLoss) THEN "Bad generatedLoss"
    ELSE ""

\* Variant of tooFewLines: a file of the header alone is let through.
tooFewLinesOffByOne(lines) == Len(lines) < 1

\* readCsv: if (lines.length < 2) throw
tooFewLines(lines) == Len(lines) < 2

\* readCsv: [err, rows]; err is the message of the first throw, "" when none.
readCsv(lines) ==
    IF tooFewLines(lines)
    THEN [err |-> "CSV must have header + at least 1 row", rows |-> <<>>]
    ELSE LET header == lines[1]
             idxAddr == IndexOf(header, "address")
             idxAmt == IndexOf(header, "amount")
             idxLoss == IndexOf(header, "generatedLoss")
         IN  IF idxAddr < 0 \/ idxAmt < 0 \/ idxLoss < 0
             THEN [err |-> "CSV header must include: address,amount,generatedLoss",
                   rows |-> <<>>]
             ELSE LET parsed == [j \in 1..(Len(lines) - 1) |->
                                   parseLine(lines[j + 1], idxAddr, idxAmt, idxLoss)]
                      bad == {j \in 1..Len(parsed) : lineError(parsed[j]) # ""}
                  IN  IF bad # {}
                      THEN [err |-> lineError(parsed[CHOOSE j \in bad : \A m \in bad : j <= m]),
                            rows |-> <<>>]
                      ELSE [err |-> "", rows |-> parsed]

\* a.address.localeCompare(b.address) on lower-case addresses.
localeCompare(a, b) == addrOrd(a) - addrOrd(b)

\* Array.prototype.sort is stable: x goes after every element not above it.
RECURSIVE InsertSorted(_, _)
InsertSorted(s, x) ==
    IF s = <<>> THEN <<x>>
    ELSE IF localeCompare(s[Len(s)].address, x.address) <= 0 THEN Append(s, x)
    ELSE Append(InsertSorted(SubSeq(s, 1, Len(s) - 1), x), s[Len(s)])

RECURSIVE sortByAddress(_)
sortByAddress(s) ==
    IF s = <<>> THEN <<>>
    ELSE InsertSorted(sortByAddress(SubSeq(s, 1, Len(s) - 1)), s[Len(s)])

\* writeJson(file, obj)
writeJson(fs, file, obj) == (file :> obj) @@ fs

ReadCsv ==
    /\ pc = "readCsv"
    /\ LET res == readCsv(csv)
       IN  IF res.err # ""
           THEN /\ Throw(res.err)
                /\ rows' = rows
           ELSE /\ rows' = res.rows
                /\ pc' = "sort"
                /\ err' = err
    /\ UNCHANGED <<entry, csv, leaves, level, next, i, layers, root, mi,
                   totalAmount, totalLoss, dirs, files, writes, query, proof,
                   lastCall, hashPairCalls, buildCalls, entries>>

SortRows ==
    /\ pc = "sort"
    /\ rows' = sortByAddress(rows)
    /\ pc' = "leaves"
    /\ UNCHANGED <<entry, err, csv, leaves, level, next, i, layers, root, mi,
                   totalAmount, totalLoss, dirs, files, writes, query, proof,
                   lastCall, hashPairCalls, buildCalls, entries>>

\* const leaves = rows.map((r) => leafPacked(...)): encodePacked throws on
\* the first integer that does not fit a uint256.
MapLeaves ==
    /\ pc = "leaves"
    /\ IF \E j \in 1..Len(rows) :
            ~fitsUint256(rows[j].amount) \/ ~fitsUint256(rows[j].generatedLoss)
       THEN /\ Throw("IntegerOutOfRangeError")
            /\ leaves' = leaves
       ELSE /\ leaves' = [j \in 1..Len(rows) |->
                            leafPacked(rows[j].address, rows[j].amount,
                                       rows[j].generatedLoss)]
            /\ pc' = "buildTree"
            /\ err' = err
    /\ UNCHANGED <<entry, csv, rows, level, next, i, layers, root, mi,
                   totalAmount, totalLoss, dirs, files, writes, query, proof,
                   lastCall, hashPairCalls, buildCalls, entries>>

EnsureDirs ==
    /\ pc = "ensureDir"
    /\ dirs' = dirs \cup {"claims", "epochs"}
    /\ totalAmount' = 0
    /\ totalLoss' = 0
    /\ mi' = 0
    /\ pc' = "loop"
    /\ UNCHANGED <<entry, err, csv, rows, leaves, level, next, i, layers, root,
                   files, writes, query, proof, lastCall, hashPairCalls,
                   buildCalls, entries>>

\* One iteration of `for (let i = 0; i < rows.length; i++)'.
ClaimIter ==
    /\ pc = "loop"
    /\ mi < Len(rows)
    /\ LET r == rows[mi + 1]
           leaf == leaves[mi + 1]
           outFile == <<"claims", r.address>>
           out == [epochId |-> "EPOCH_ID",
                   amount |-> r.amount,
                   generatedLoss |-> r.generatedLoss,
                   proof |-> getProof(leaf, layers)]
       IN  IF getProofThrows(leaf, layers)
           THEN /\ Throw("Leaf not found in layer 0")
                /\ UNCHANGED <<mi, totalAmount, totalLoss, files, writes>>
           ELSE /\ totalAmount' = totalAmount + BigInt(r.amount)
                /\ totalLoss' = totalLoss + BigInt(r.generatedLoss)
                /\ files' = writeJson(files, outFile, out)
                /\ writes' = Append(writes, [file |-> outFile, obj |-> out])
                /\ mi' = mi + 1
                /\ UNCHANGED <<pc, err>>
    /\ UNCHANGED <<entry, csv, rows, leaves, level, next, i, layers, root, dirs,
                   query, proof, lastCall, hashPairCalls, buildCalls, entries>>

\* epochMeta without its `input' path and `generatedAt' clock reading.
epochMeta ==
    [chainId |-> "CHAIN_ID",
     epochId |-> "EPOCH_ID",
     merkleRoot |-> root,
     count |-> Len(rows),
     totalAmount |-> totalAmount,
     totalGeneratedLoss |-> totalLoss]

WriteEpoch ==
    /\ pc = "loop"
    /\ ~(mi < Len(rows))
    /\ files' = writeJson(files, <<"epochs", "EPOCH_ID">>, epochMeta)
    /\ writes' = Append(writes, [file |-> <<"epochs", "EPOCH_ID">>, obj |-> epochMeta])
    /\ pc' = "latest"
    /\ UNCHANGED <<entry, err, csv, rows, leaves, level, next, i, layers, root,
                   mi, totalAmount, totalLoss, dirs, query, proof, lastCall,
                   hashPairCalls, buildCalls, entries>>

WriteLatest ==
    /\ pc = "latest"
    /\ files' = writeJson(files, <<"epochs", "latest">>, epochMeta)
    /\ writes' = Append(writes, [file |-> <<"epochs", "latest">>, obj |-> epochMeta])
    /\ pc' = "done"
    /\ UNCHANGED <<entry, err, csv, rows, leaves, level, next, i, layers, root,
                   mi, totalAmount, totalLoss, dirs, query, proof, lastCall,
                   hashPairCalls, buildCalls, entries>>

---------------------------------------------------------------------------
(* The script run of generate-claims.mjs.  csv-parse and                   *)
(* StandardMerkleTree are libraries: modelled by what they accept, what    *)
(* they throw on, and opaque results.                                      *)

Undefined == "<undefined>"      \* the value of a property an object lacks

\* String(x)
String(x) == IF x = Undefined THEN "undefined" ELSE x

\* csv-parse with columns: true: r[name] of the record of one line.
Field(header, cols, name) ==
    IF IndexOf(header, name) < 0 THEN Undefined ELSE cols[IndexOf(header, name) + 1]

\* csv-parse rejects a record whose number of cells differs from the header's.
csvParseThrows(lines) ==
    /\ lines # <<>>
    /\ \E j \in 2..Len(lines) : Len(lines[j]) # Len(lines[1])

\* x.startsWith("0x") && x.length === 42 on a lower-cased cell.
looksLikeAddress(x) == x \in {"0xaa", "0xbb", "0xcc", "0xzz"}

normAddr(a) ==
    IF a = Undefined THEN ""
    ELSE IF ~looksLikeAddress(addrToLowerCase(a)) THEN ""
    ELSE addrToLowerCase(a)

\* asUintStr throws unless /^[0-9]+$/ matches.
asUintStrThrows(x) == ~isDigits(x)

\* The throw of one pass of the collecting loop, "" when the record passes.
entryError(header, cols) ==
    IF normAddr(Field(header, cols, "address")) = "" THEN "Bad address"
    ELSE IF asUintStrThrows(String(Field(header, cols, "amount")))
         THEN "amount must be uint256 decimal string"
    ELSE IF asUintStrThrows(String(Field(header, cols, "generatedLoss")))
         THEN "generatedLoss must be uint256 decimal string"
    ELSE ""

entryOf(header, cols) ==
    <<normAddr(Field(header, cols, "address")),
      String(Field(header, cols, "amount")),
      String(Field(header, cols, "generatedLoss"))>>

\* StandardMerkleTree.of encodes each entry as (address, uint256, uint256) and
\* throws on a value that is not of its type.
standardTreeThrows(es) ==
    \E j \in 1..Len(es) :
        ~isAddress(es[j][1]) \/ ~fitsUint256(es[j][2]) \/ ~fitsUint256(es[j][3])

\* tree.root and tree.getProof(i): opaque values of the library.
standardTreeRoot(es) == Hex(<<"StandardMerkleTree", "root", es, 0>>, FALSE)

standardTreeProof(es, j) == <<Hex(<<"StandardMerkleTree", "proof", es, j>>, FALSE)>>

\* Lines 35-64: parse the file, collect the entries, reject an empty list.
CollectEntries ==
    /\ pc = "collect"
    /\ IF csvParseThrows(csv)
       THEN /\ Throw("Invalid Record Length")
            /\ entries' = entries
       ELSE LET recs == IF csv = <<>> THEN <<>> ELSE SubSeq(csv, 2, Len(csv))
                bad == {j \in 1..Len(recs) : entryError(csv[1], recs[j]) # ""}
            IN  IF bad # {}
                THEN /\ Throw(entryError(csv[1], recs[CHOOSE j \in bad : \A m \in bad : j <= m]))
                     /\ entries' = entries
                ELSE IF Len(recs) = 0
                THEN /\ Throw("No rows in CSV.")
                     /\ entries' = entries
                ELSE /\ entries' = [j \in 1..Len(recs) |-> entryOf(csv[1], recs[j])]
                     /\ pc' = "tree"
                     /\ err' = err
    /\ UNCHANGED <<entry, csv, rows, leaves, level, next, i, layers, root, mi,
                   totalAmount, totalLoss, dirs, files, writes, query, proof,
                   lastCall, hashPairCalls, buildCalls>>

\* Lines 69-70.
StandardTree ==
    /\ pc = "tree"
    /\ IF standardTreeThrows(entries)
       THEN /\ Throw("StandardMerkleTree.of")
            /\ root' = root
       ELSE /\ root' = standardTreeRoot(entries)
            /\ pc' = "epochMeta"
            /\ err' = err
    /\ UNCHANGED <<entry, csv, rows, leaves, level, next, i, layers, mi,
                   totalAmount, totalLoss, dirs, files, writes, query, proof,
                   lastCall, hashPairCalls, buildCalls, entries>>

gcEpochMeta ==
    [chainId |-> "CHAIN_ID", epochId |-> "EPOCH_ID", merkleRoot |-> root,
     entries |-> Len(entries)]

\* Lines 75-77.
GcWriteEpoch ==
    /\ pc = "epochMeta"
    /\ dirs' = dirs \cup {"epochs"}
    /\ files' = writeJson(files, <<"epochs", "EPOCH_ID">>, gcEpochMeta)
    /\ writes' = Append(writes, [file |-> <<"epochs", "EPOCH_ID">>, obj |-> gcEpochMeta])
    /\ pc' = "gcLatest"
    /\ UNCHANGED <<entry, err, csv, rows, leaves, level, next, i, layers, root,
                   mi, totalAmount, totalLoss, query, proof, lastCall,
                   hashPairCalls, buildCalls, entries>>

\* Lines 78-81.
GcWriteLatest ==
    /\ pc = "gcLatest"
    /\ files' = writeJson(files, <<"epochs", "latest">>, gcEpochMeta)
    /\ writes' = Append(writes, [file |-> <<"epochs", "latest">>, obj |-> gcEpochMeta])
    /\ dirs' = dirs \cup {"claims"}
    /\ mi' = 0
    /\ pc' = "bundles"
    /\ UNCHANGED <<entry, err, csv, rows, leaves, level, next, i, layers, root,
                   totalAmount, totalLoss, query, proof, lastCall,
                   hashPairCalls, buildCalls, entries>>

\* Lines 87-93: the index of the first tree entry equal to e, 0 when there
\* is none.
firstEntry(es, e) ==
    IF \E j \in 1..Len(es) : es[j] = e
    THEN CHOOSE j \in 1..Len(es) : es[j] = e /\ \A m \in 1..(j - 1) : es[m] # e
    ELSE 0

\* One pass of `for (const [addr, amount, generatedLoss] of entries)'.
GcBundle ==
    /\ pc = "bundles"
    /\ mi < Len(entries)
    /\ LET e == entries[mi + 1]
           found == firstEntry(entries, e)
           bundle == [epochId |-> "EPOCH_ID",
                      amount |-> e[2],
                      generatedLoss |-> e[3],
                      proof |-> standardTreeProof(entries, found)]
       IN  IF found = 0
           THEN /\ Throw("Proof not found")
                /\ UNCHANGED <<mi, files, writes>>
           ELSE /\ files' = writeJson(files, <<"claims", e[1]>>, bundle)
                /\ writes' = Append(writes, [file |-> <<"claims", e[1]>>, obj |-> bundle])
                /\ mi' = mi + 1
                /\ UNCHANGED <<pc, err>>
    /\ UNCHANGED <<entry, csv, rows, leaves, level, next, i, layers, root, dirs,
                   totalAmount, totalLoss, query, proof, lastCall,
                   hashPairCalls, buildCalls, entries>>

GcDone ==
    /\ pc = "bundles"
    /\ ~(mi < Len(entries))
    /\ pc' = "done"
    /\ UNCHANGED <<entry, err, csv, rows, leaves, level, next, i, layers, root,
                   mi, totalAmount, totalLoss, dirs, files, writes, query,
                   proof, lastCall, hashPairCalls, buildCalls, entries>>

---------------------------------------------------------------------------

Next ==
    \/ ReadCsv
    \/ SortRows
    \/ MapLeaves
    \/ BuildEnter
    \/ BuildWhile
    \/ BuildPair
    \/ BuildLayer
    \/ BuildReturn
    \/ EnsureDirs
    \/ ClaimIter
    \/ WriteEpoch
    \/ WriteLatest
    \/ GetProofCall
    \/ CollectEntries
    \/ StandardTree
    \/ GcWriteEpoch
    \/ GcWriteLatest
    \/ GcBundle
    \/ GcDone

Spec == Init /\ [][Next]_vars

\* The script and the functions run to completion: no step is held back.
FairSpec == Spec /\ WF_vars(Next)

---------------------------------------------------------------------------
(* Properties. *)

\* verify: fold a proof onto a leaf with hashPair, first element first.
RECURSIVE Fold(_, _)
Fold(x, p) == IF p = <<>> THEN x ELSE Fold(hashPair(x, Head(p)), Tail(p))

\* buildTree has returned.
Returned == root # NoHex /\ entry # "generate-claims"

\* C1. Round trip: for every non-empty leaf sequence and every leaf of it,
\* folding getProof(leaf, layers) onto the leaf with hashPair gives the root
\* that buildTree returned.
RoundTrip == pc = "proved" => Fold(query, proof) = root

\* An odd number of leaves, a duplicated leaf, and the last leaf queried.
RoundTripWitness ==
    /\ pc = "proved"
    /\ Len(leaves) = 5
    /\ leaves[1] = leaves[2]
    /\ query = leaves[5]
    /\ \A j \in 1..4 : leaves[j] # query
    /\ Fold(query, proof) = root

\* Values put in the place of a proof element: every leaf value, every node
\* of the tree, and digests that need not be in the tree.
TamperValues == QueryValues \cup {hashPair(x, x) : x \in LeafValues}

SwapProof(p, j, k) == [p EXCEPT ![j] = p[k], ![k] = p[j]]

\* C2. Negative proof: with a collision-free hash, a proof with one element
\* replaced by a different 32-byte value, or with two elements of different
\* values exchanged, does not fold onto the leaf to the root.
NegativeProof ==
    pc = "proved" =>
        /\ \A k \in 1..Len(proof) : \A v \in TamperValues :
               v.bytes # proof[k].bytes => Fold(query, [proof EXCEPT ![k] = v]) # root
        /\ \A j, k \in 1..Len(proof) :
               proof[j].bytes # proof[k].bytes => Fold(query, SwapProof(proof, j, k)) # root

\* A proof of three elements, all of different values.
NegativeProofWitness ==
    /\ pc = "proved"
    /\ Len(proof) = 3
    /\ proof[1].bytes # proof[2].bytes
    /\ proof[2].bytes # proof[3].bytes
    /\ proof[1].bytes # proof[3].bytes
    /\ Fold(query, SwapProof(proof, 1, 3)) # root

ThreeLeafLayers ==
    Len(leaves) = 3 /\ Returned =>
        /\ Len(layers) = 3
        /\ layers[2] = <<hashPair(leaves[1], leaves[2]), hashPair(leaves[3], leaves[3])>>
        /\ root = hashPair(layers[2][1], layers[2][2])

\* C3 as stated: for every 3-leaf input [L0,L1,L2], layer 1 is
\* [hashPair(L0,L1), hashPair(L2,L2)], the root is hashPair of the two, and
\* getProof(L2, layers) is [L2, layer1[0]].
OddLayerAnyLeaves ==
    /\ ThreeLeafLayers
    /\ pc = "proved" /\ Len(leaves) = 3 /\ query = leaves[3] =>
           proof = <<leaves[3], layers[2][1]>>

\* C3, amended: the layers and the root are as stated for every 3-leaf input;
\* getProof(L2, layers) is [L2, layer1[0]] when L2 is neither L0 nor L1.
OddLayerDuplication ==
    /\ ThreeLeafLayers
    /\ /\ pc = "proved"
       /\ Len(leaves) = 3
       /\ query = leaves[3]
       /\ leaves[3] # leaves[1]
       /\ leaves[3] # leaves[2]
       => proof = <<leaves[3], layers[2][1]>>

OddLayerWitness ==
    /\ pc = "proved"
    /\ Len(leaves) = 3
    /\ query = leaves[3]
    /\ leaves[3].bytes # leaves[1].bytes
    /\ leaves[3].bytes # leaves[2].bytes
    /\ leaves[1].bytes # leaves[2].bytes
    /\ proof = <<leaves[3], layers[2][1]>>

\* C4. Single leaf: buildTree on one leaf makes no hashPair call and returns
\* that leaf as the root and [leaf] as the only layer; getProof(leaf, layers)
\* is empty.
SingleLeaf ==
    /\ Len(leaves) = 1 /\ Returned =>
           /\ hashPairCalls = 0
           /\ root = leaves[1]
           /\ layers = <<leaves>>
    /\ Len(leaves) = 1 /\ pc = "proved" /\ query = leaves[1] => proof = <<>>

SingleLeafWitness ==
    /\ Len(leaves) = 1
    /\ pc = "proved"
    /\ query = leaves[1]
    /\ query.upper
    /\ root = query
    /\ proof = <<>>

BytesMin(x, y) == IF BytesLess(y, x) THEN y ELSE x

BytesMax(x, y) == IF BytesLess(y, x) THEN x ELSE y

\* C5. Sorted-pair symmetry: hashPair(a,b) = hashPair(b,a) for the values of
\* every call, equal values and values differing in letter case included, and
\* the hashed input is the smaller value's bytes followed by the larger's.
SortedPairSymmetry ==
    lastCall # <<>> =>
        /\ hashPair(lastCall[2], lastCall[1]) = lastCall[3]
        /\ lastCall[3] = keccak256(<<BytesMin(lastCall[1].bytes, lastCall[2].bytes),
                                     BytesMax(lastCall[1].bytes, lastCall[2].bytes)>>)

\* A call whose first argument is the larger value, spelt in upper case.
SortedPairWitness ==
    /\ lastCall # <<>>
    /\ lastCall[1].upper
    /\ BytesLess(lastCall[2].bytes, lastCall[1].bytes)
    /\ lastCall[3].bytes = <<lastCall[2].bytes, lastCall[1].bytes>>

\* C6. Empty input is rejected: buildTree on zero leaves throws and returns
\* no root and no layers; a script run on a file without data rows throws
\* before buildTree is entered and before anything is written.
EmptyRejected ==
    /\ entry = "harness" /\ Len(leaves) = 0 /\ pc # "buildTree" =>
           /\ pc = "error"
           /\ err = "No leaves"
           /\ root = NoHex
           /\ layers = <<>>
    /\ entry = "main" /\ Len(csv) < 2 /\ pc # "readCsv" =>
           /\ pc = "error"
           /\ err = "CSV must have header + at least 1 row"
           /\ buildCalls = 0
           /\ writes = <<>>
           /\ files = <<>>
    /\ entry = "generate-claims" /\ Len(csv) < 2 /\ pc # "collect" =>
           /\ pc = "error"
           /\ err = "No rows in CSV."
           /\ root = NoHex
           /\ writes = <<>>
           /\ files = <<>>

\* A run of gen-merkle.mjs on a file that has a header and nothing else.
EmptyRejectedWitness ==
    /\ entry = "main"
    /\ csv = <<Header>>
    /\ pc = "error"
    /\ buildCalls = 0
    /\ writes = <<>>

\* The writes of a finished run of gen-merkle.mjs: a claim with its proof for
\* every record, then the epoch's metadata with the root, twice.
MainWritesComplete ==
    /\ Len(writes) = Len(rows) + 2
    /\ \A j \in 1..Len(rows) :
           /\ writes[j].file = <<"claims", rows[j].address>>
           /\ writes[j].obj.proof = getProof(leaves[j], layers)
           /\ Fold(leaves[j], writes[j].obj.proof) = root
    /\ \A j \in (Len(rows) + 1)..(Len(rows) + 2) :
           /\ writes[j].file[1] = "epochs"
           /\ writes[j].obj.merkleRoot = root

\* The writes of a finished run of generate-claims.mjs.
GcWritesComplete ==
    /\ Len(writes) = Len(entries) + 2
    /\ \A j \in 1..2 :
           /\ writes[j].file[1] = "epochs"
           /\ writes[j].obj.merkleRoot = root
    /\ \A j \in 1..Len(entries) :
           /\ writes[j + 2].file = <<"claims", entries[j][1]>>
           /\ Len(writes[j + 2].obj.proof) > 0

\* C7. No partial failure: a run that throws has written no file, and a run
\* that has written a file ends with the root and a proof for every record
\* written.
NoPartialFailure ==
    /\ pc = "error" => writes = <<>> /\ files = <<>>
    /\ pc = "done" /\ entry = "main" => MainWritesComplete
    /\ pc = "done" /\ entry = "generate-claims" => GcWritesComplete

\* The last error a run can raise on its input: an integer too wide for
\* uint256, found after the file was read and the rows sorted.
NoPartialFailureWitness ==
    /\ entry = "main"
    /\ pc = "error"
    /\ err = "IntegerOutOfRangeError"
    /\ Len(rows) = MaxRows
    /\ writes = <<>>

InLayer0(x) == \E j \in 1..Len(layers[1]) : layers[1][j] = x

\* C8. getProof throws leaf-not-found exactly when the queried value does not
\* occur in layer 0, and a run of gen-merkle.mjs never throws it: it queries
\* leaves[i], and layer 0 is leaves.
LeafNotFound ==
    /\ entry = "harness" /\ query # NoHex =>
           ((pc = "error" /\ err = "Leaf not found in layer 0") <=> ~InLayer0(query))
    /\ entry = "main" =>
           /\ err # "Leaf not found in layer 0"
           /\ pc = "loop" => layers[1] = leaves

\* The query is a node of the tree above layer 0, and no leaf.
LeafNotFoundWitness ==
    /\ entry = "harness"
    /\ pc = "error"
    /\ err = "Leaf not found in layer 0"
    /\ Len(layers) >= 2
    /\ query = layers[2][1]
    /\ ~InLayer0(query)

Min(a, b) == IF a < b THEN a ELSE b

\* Layer l (from 2) is made of the pairs of layer l - 1, the last element
\* paired with itself when it has no partner.
LayerFromPrevious(l) ==
    /\ Len(layers[l]) = (Len(layers[l - 1]) + 1) \div 2
    /\ \A k \in 0..(Len(layers[l]) - 1) :
           layers[l][k + 1] =
               hashPair(layers[l - 1][2 * k + 1],
                        layers[l - 1][Min(2 * k + 1, Len(layers[l - 1]) - 1) + 1])

ShapeOfLayers ==
    Len(leaves) > 0 /\ Returned =>
        /\ layers[1] = leaves
        /\ \A l \in 2..Len(layers) : LayerFromPrevious(l)
        /\ Len(layers[Len(layers)]) = 1
        /\ root = layers[Len(layers)][1]

\* C9. Layer shape: layer 0 is the input in its order, every later layer has
\* ceil(previous length / 2) elements, element k being hashPair of elements 2k
\* and min(2k+1, last) of the previous layer, the final layer has one element,
\* which is the root, and the construction terminates.
LayerShape ==
    /\ []ShapeOfLayers
    /\ (pc = "buildTree" /\ Len(leaves) > 0) ~> Returned

LayerShapeWitness ==
    /\ Returned
    /\ Len(leaves) = 5
    /\ Len(layers) = 4
    /\ Len(layers[2]) = 3
    /\ Len(layers[3]) = 2

RECURSIVE Pow2(_)
Pow2(n) == IF n = 0 THEN 1 ELSE 2 * Pow2(n - 1)

\* The 1-based position of the first occurrence of x in layer 0.
FirstOccurrence(x) ==
    CHOOSE j \in 1..Len(layers[1]) :
        layers[1][j] = x /\ \A m \in 1..(j - 1) : layers[1][m] # x

\* The sibling of 0-based position p in a layer, itself when it has none.
SiblingAt(layer, p) ==
    IF p % 2 = 1 THEN layer[p]
    ELSE IF p + 2 <= Len(layer) THEN layer[p + 2]
    ELSE layer[p + 1]

\* The claim writes made for two records of the same address, amount and
\* generatedLoss carry the same proof.
SameRecordSameProof ==
    \A j, k \in 1..Min(Len(rows), Len(writes)) :
        rows[j] = rows[k] => writes[j].obj.proof = writes[k].obj.proof

\* C10. Duplicate leaves: getProof returns the sibling path of the first
\* occurrence of the queried value in layer 0, so the records of a run with
\* the same address, amount and generatedLoss get the same proof.
DuplicateLeaves ==
    /\ pc = "proved" =>
           /\ Len(proof) = Len(layers) - 1
           /\ \A l \in 1..Len(proof) :
                  proof[l] = SiblingAt(layers[l], (FirstOccurrence(query) - 1) \div Pow2(l - 1))
    /\ entry = "main" => SameRecordSameProof

\* The queried value is the first and the last of three leaves.
DuplicateLeavesWitness ==
    /\ pc = "proved"
    /\ Len(leaves) = 3
    /\ leaves[1] = query
    /\ leaves[3] = query
    /\ leaves[2].bytes # query.bytes
    /\ proof = <<leaves[2], layers[2][2]>>

---------------------------------------------------------------------------
(* The run of gen-merkle.mjs as a function of the input file.              *)

\* One pass of the while loop of buildTree: the layer above lvl.
nextLevel(lvl) ==
    [k \in 1..((Len(lvl) + 1) \div 2) |->
        hashPair(lvl[2 * k - 1], PairRight(lvl, 2 * k - 2))]

\* The while loop of buildTree: acc is `layers', its last element `level'.
RECURSIVE buildLayers(_)
buildLayers(acc) ==
    IF Len(acc[Len(acc)]) > 1
    THEN buildLayers(Append(acc, nextLevel(acc[Len(acc)])))
    ELSE acc

\* buildTree(leaves) for a non-empty leaves.
buildTree(lvs) ==
    LET ls == buildLayers(<<lvs>>)
    IN  [root |-> ls[Len(ls)][1], layers |-> ls]

\* rows, leaves, root and layers of the run on a file readCsv accepts.
generated(lines) ==
    LET rs == sortByAddress(readCsv(lines).rows)
        lvs == [j \in 1..Len(rs) |->
                   leafPacked(rs[j].address, rs[j].amount, rs[j].generatedLoss)]
    IN  [rows |-> rs, leaves |-> lvs,
         root |-> buildTree(lvs).root, layers |-> buildTree(lvs).layers]

\* The file with its data lines in the order p, a permutation of 1..n.
Reordered(lines, p) ==
    <<lines[1]>> \o [j \in 1..(Len(lines) - 1) |-> lines[p[j] + 1]]

\* The stepwise buildTree and the function agree.
BuildTreeAgrees ==
    Returned => layers = buildTree(leaves).layers /\ root = buildTree(leaves).root

\* C11. Stable output under row order: a finished run and the run on the
\* same data lines in any other order have the same leaf sequence, the same
\* merkleRoot and the same proof for each record.
StableUnderRowOrder ==
    (entry = "main" /\ pc = "done") =>
        \A p \in Permutations(1..(Len(csv) - 1)) :
            LET g == generated(Reordered(csv, p))
            IN  /\ g.leaves = leaves
                /\ g.root = root
                /\ \A j \in 1..Len(leaves) :
                       getProof(leaves[j], g.layers) = getProof(leaves[j], layers)

\* The claim objects stored by a finished run.
StoredClaims == {f \in DOMAIN files : f[1] = "claims"}

\* C12. Persisted claims are consistent with the persisted root: after a
\* successful run of gen-merkle.mjs every record has a claim object under its
\* address with its amount and generatedLoss, whose proof folds from the
\* record's leaf to the stored merkleRoot, and the number of claim objects
\* is the count of the epoch metadata.
PersistedConsistent ==
    (entry = "main" /\ pc = "done") =>
        LET meta == files[<<"epochs", "EPOCH_ID">>]
        IN  /\ \A j \in 1..Len(rows) :
                   LET f == <<"claims", rows[j].address>>
                   IN  /\ f \in DOMAIN files
                       /\ files[f].amount = rows[j].amount
                       /\ files[f].generatedLoss = rows[j].generatedLoss
                       /\ Fold(leafPacked(rows[j].address, rows[j].amount,
                                          rows[j].generatedLoss),
                               files[f].proof) = meta.merkleRoot
            /\ Cardinality(StoredClaims) = meta.count

====
